---- MODULE Spec2Model ----
(***************************************************************************)
(* Model of the Cashflow finance agent's StripeService: the paginated      *)
(* tools analyzeRevenueTrends and getPaymentHistory, with the helpers     *)
(* groupChargesByPeriod and generateInsights, run against a payments      *)
(* ledger that answers list requests page by page.                         *)
(*                                                                         *)
(* Money.  The ledger's amounts are integer minor units (cents).  The     *)
(* code divides by 100 and works in floating-point dollars, rounding to   *)
(* cents with Math.round(x * 100) / 100.  The model keeps every amount in *)
(* cents: a payload value of 45.00 is the model's 4500.  For the amounts  *)
(* and counts within the bounds the floating-point error of the            *)
(* accumulation is far below half a cent and no quotient falls on an      *)
(* exact half cent, so the rounding steps are exactly the integer         *)
(* roundings written here.                                                 *)
(*                                                                         *)
(* Text.  Period labels are sequences of one-character strings, built     *)
(* digit by digit as toISOString and the template literals build them,    *)
(* and compared character by character as localeCompare compares them.    *)
(***************************************************************************)
EXTENDS Integers, Sequences, FiniteSets, TLC

----------------------------------------------------------------------------
(* Bounds of the model *)

\* longest ledger feed (charges or checkout sessions)
MaxFeed == 3

\* the page requests one invocation may make of a ledger that answers with
\* empty pages
MaxRequests == 4

----------------------------------------------------------------------------
(* JavaScript Date, for instants given in epoch seconds *)

SecondsPerDay == 86400

Min(a, b) == IF a < b THEN a ELSE b

\* days since 1970-01-01 of the proleptic Gregorian date y-m-d
DaysFromCivil(y, m, d) ==
    LET yy  == IF m <= 2 THEN y - 1 ELSE y
        era == yy \div 400
        yoe == yy - era * 400
        mp  == IF m > 2 THEN m - 3 ELSE m + 9
        doy == (153 * mp + 2) \div 5 + d - 1
        doe == yoe * 365 + yoe \div 4 - yoe \div 100 + doy
    IN  era * 146097 + doe - 719468

\* the proleptic Gregorian date of a day number
CivilFromDays(days) ==
    LET z   == days + 719468
        era == z \div 146097
        doe == z - era * 146097
        yoe == (doe - doe \div 1460 + doe \div 36524 - doe \div 146096) \div 365
        doy == doe - (365 * yoe + yoe \div 4 - yoe \div 100)
        mp  == (5 * doy + 2) \div 153
        d   == doy - (153 * mp + 2) \div 5 + 1
        m   == IF mp < 10 THEN mp + 3 ELSE mp - 9
        y   == yoe + era * 400 + (IF m <= 2 THEN 1 ELSE 0)
    IN  [y |-> y, m |-> m, d |-> d]

\* Date.prototype.getDay of a day number: 0 = Sunday .. 6 = Saturday
WeekdayOfDays(days) == (days + 4) % 7

\* the day number and the date of instant t in the zone at offset off
\* (seconds east of UTC); off = 0 gives the UTC fields
LocalDays(t, off) == (t + off) \div SecondsPerDay
getFullYear(t, off) == CivilFromDays(LocalDays(t, off)).y
getMonth(t, off) == CivilFromDays(LocalDays(t, off)).m - 1
getDate(t, off) == CivilFromDays(LocalDays(t, off)).d
getDay(t, off) == WeekdayOfDays(LocalDays(t, off))

\* Date.prototype.setDate(n): the instant with the local day of month set to
\* n, counted from the first of the local month (n may be <= 0 or past the
\* month's end), the local time of day kept
setDate(t, n, off) ==
    LET local == t + off
        c     == CivilFromDays(local \div SecondsPerDay)
        day   == DaysFromCivil(c.y, c.m, 1) + (n - 1)
    IN  day * SecondsPerDay + (local % SecondsPerDay) - off

----------------------------------------------------------------------------
(* Text *)

Digits == <<"0", "1", "2", "3", "4", "5", "6", "7", "8", "9">>

Digit(n) == Digits[n + 1]

\* String(n) for n >= 0
RECURSIVE Decimal(_)
Decimal(n) == IF n < 10 THEN <<Digit(n)>> ELSE Decimal(n \div 10) \o <<Digit(n % 10)>>

\* String.prototype.padStart(width, "0")
RECURSIVE padStart(_, _)
padStart(s, width) == IF Len(s) >= width THEN s ELSE padStart(<<"0">> \o s, width)

\* toISOString().split("T")[0] of instant t: the UTC date as YYYY-MM-DD
ISODate(t) ==
    LET c == CivilFromDays(LocalDays(t, 0))
    IN  padStart(Decimal(c.y), 4) \o <<"-">> \o padStart(Decimal(c.m), 2)
            \o <<"-">> \o padStart(Decimal(c.d), 2)

\* collation rank of a character: punctuation before digits
Collation == <<"-", "0", "1", "2", "3", "4", "5", "6", "7", "8", "9">>

Rank(ch) == CHOOSE i \in 1..Len(Collation) : Collation[i] = ch

\* a.localeCompare(b): negative, zero or positive
RECURSIVE localeCompare(_, _)
localeCompare(a, b) ==
    IF a = <<>> /\ b = <<>> THEN 0
    ELSE IF a = <<>> THEN -1
    ELSE IF b = <<>> THEN 1
    ELSE IF Rank(Head(a)) < Rank(Head(b)) THEN -1
    ELSE IF Rank(Head(a)) > Rank(Head(b)) THEN 1
    ELSE localeCompare(Tail(a), Tail(b))

\* Array.prototype.sort is stable: an element is inserted after every element
\* it does not strictly precede.  periodData.sort((a, b) =>
\* a.period.localeCompare(b.period))
RECURSIVE InsertByPeriod(_, _)
InsertByPeriod(x, s) ==
    IF s = <<>> THEN <<x>>
    ELSE IF localeCompare(x.period, Head(s).period) < 0 THEN <<x>> \o s
    ELSE <<Head(s)>> \o InsertByPeriod(x, Tail(s))

\* the entries left in the Map's insertion order
SortByPeriod_InsertionOrder(s) == s

RECURSIVE SortByPeriod(_)
SortByPeriod(s) ==
    IF s = <<>> THEN <<>>
    ELSE InsertByPeriod(s[Len(s)], SortByPeriod(SubSeq(s, 1, Len(s) - 1)))

----------------------------------------------------------------------------
(* State *)

VARIABLES
    chargeFeed,   \* the ledger's charges, in the order its list endpoint returns them
    sessionFeed,  \* the ledger's completed checkout sessions, in list order
    tz,           \* the process's local time zone, seconds east of UTC
    call,         \* per tool invocation: its position, locals, requests and result
    refunds,      \* the refunds the ledger has recorded, oldest first
    proc          \* the process: its HTTP server, hosted connection and signals

vars == <<chargeFeed, sessionFeed, tz, call, refunds, proc>>

\* the tool invocations the hosting runtime may run
Calls == {"c1", "c2"}

\* JavaScript's undefined, as a cursor
undefined == <<>>

\* JavaScript's NaN, as a timestamp: the instants of the model are all after
\* the epoch, and a timestamp is NaN exactly when it is this value
NaN == 0 - 1
isNaN(x) == x = NaN

----------------------------------------------------------------------------
(* groupChargesByPeriod *)

\* the key of one charge: the switch on groupBy
periodKey(created, groupBy, off) ==
    CASE groupBy = "day" -> ISODate(created)
      [] groupBy = "week" ->
            ISODate(setDate(created, getDate(created, off) - getDay(created, off) + 1, off))
      [] groupBy = "month" ->
            Decimal(getFullYear(created, off)) \o <<"-">>
                \o padStart(Decimal(getMonth(created, off) + 1), 2)

\* an entry that keeps the latest amount instead of the running sum
MapAdd_Overwrite(grouped, key, amount) ==
    IF \E i \in 1..Len(grouped) : grouped[i].period = key
    THEN [i \in 1..Len(grouped) |->
            IF grouped[i].period = key
            THEN [period |-> key, revenue |-> amount, count |-> grouped[i].count + 1]
            ELSE grouped[i]]
    ELSE Append(grouped, [period |-> key, revenue |-> amount, count |-> 1])

\* grouped.set(periodKey, {revenue: existing.revenue + amount, count: existing.count + 1})
\* on a Map, kept as its entries in insertion order
MapAdd(grouped, key, amount) ==
    IF \E i \in 1..Len(grouped) : grouped[i].period = key
    THEN [i \in 1..Len(grouped) |->
            IF grouped[i].period = key
            THEN [period |-> key, revenue |-> grouped[i].revenue + amount,
                  count |-> grouped[i].count + 1]
            ELSE grouped[i]]
    ELSE Append(grouped, [period |-> key, revenue |-> 0 + amount, count |-> 0 + 1])

\* charges.forEach(...)
RECURSIVE GroupedMap(_, _, _)
GroupedMap(charges, groupBy, off) ==
    IF charges = <<>> THEN <<>>
    ELSE LET last == charges[Len(charges)]
         IN  MapAdd(GroupedMap(SubSeq(charges, 1, Len(charges) - 1), groupBy, off),
                    periodKey(last.created, groupBy, off), last.amount)

groupChargesByPeriod(charges, groupBy) ==
    LET grouped == GroupedMap(charges, groupBy, tz)
    \* Math.round(data.revenue * 100) / 100 leaves a sum of whole cents as it is
    IN  SortByPeriod([i \in 1..Len(grouped) |->
            [period |-> grouped[i].period,
             revenue |-> grouped[i].revenue,
             transactionCount |-> grouped[i].count]])

----------------------------------------------------------------------------
(* generateInsights *)

\* a / b rounded to the nearest integer, halves up (Math.round, toFixed)
RoundDiv(a, b) == (2 * a + b) \div (2 * b)

\* an insertion that puts a bucket ahead of the earlier buckets of equal revenue
RECURSIVE InsertByRevenue_LaterFirst(_, _)
InsertByRevenue_LaterFirst(x, s) ==
    IF s = <<>> THEN <<x>>
    ELSE IF Head(s).revenue - x.revenue <= 0 THEN <<x>> \o s
    ELSE <<Head(s)>> \o InsertByRevenue_LaterFirst(x, Tail(s))

\* [...periodData].sort((a, b) => b.revenue - a.revenue): stable, descending
RECURSIVE InsertByRevenue(_, _)
InsertByRevenue(x, s) ==
    IF s = <<>> THEN <<x>>
    ELSE IF Head(s).revenue - x.revenue < 0 THEN <<x>> \o s
    ELSE <<Head(s)>> \o InsertByRevenue(x, Tail(s))

RECURSIVE sortedByRevenue(_)
sortedByRevenue(s) ==
    IF s = <<>> THEN <<>>
    ELSE InsertByRevenue(s[Len(s)], sortedByRevenue(SubSeq(s, 1, Len(s) - 1)))

RECURSIVE SumCounts(_)
SumCounts(periodData) ==
    IF periodData = <<>> THEN 0
    ELSE periodData[1].transactionCount + SumCounts(Tail(periodData))

\* One insight line: the fixed text, the period it names (none: <<>>) and the
\* number it prints (cents for the revenue lines, a count for the last)
Line(text, period, value) == [text |-> text, period |-> period, value |-> value]

\* the count line pushed whatever the count
generateInsights_CountAlways(periodData, totalRevenue) ==
    LET sorted == sortedByRevenue(periodData)
        bestWorst ==
            IF Len(periodData) > 0
            THEN <<Line("Highest revenue period: ", sorted[1].period, sorted[1].revenue)>>
                 \o (IF Len(periodData) > 1
                     THEN <<Line("Lowest revenue period: ", sorted[Len(sorted)].period,
                                 sorted[Len(sorted)].revenue)>>
                     ELSE <<>>)
            ELSE <<>>
        avgPerPeriod ==
            IF Len(periodData) > 0 THEN RoundDiv(totalRevenue, Len(periodData)) ELSE 0
    IN  [insights |->
            bestWorst
            \o <<Line("Average revenue per period: ", <<>>, avgPerPeriod)>>
            \o <<Line("Processed successful transactions: ", <<>>, SumCounts(periodData))>>,
         periodData |-> periodData]

\* the lowest line pushed whenever there is a bucket
generateInsights_LowestAlways(periodData, totalRevenue) ==
    LET sorted == sortedByRevenue(periodData)
        bestWorst ==
            IF Len(periodData) > 0
            THEN <<Line("Highest revenue period: ", sorted[1].period, sorted[1].revenue),
                   Line("Lowest revenue period: ", sorted[Len(sorted)].period,
                        sorted[Len(sorted)].revenue)>>
            ELSE <<>>
        avgPerPeriod ==
            IF Len(periodData) > 0 THEN RoundDiv(totalRevenue, Len(periodData)) ELSE 0
        totalTransactions == SumCounts(periodData)
    IN  [insights |->
            bestWorst
            \o <<Line("Average revenue per period: ", <<>>, avgPerPeriod)>>
            \o (IF totalTransactions > 0
                THEN <<Line("Processed successful transactions: ", <<>>, totalTransactions)>>
                ELSE <<>>),
         periodData |-> periodData]

\* The insights, and the caller's periodData array as the call leaves it (the
\* sort works on a copy, so the array is left as it was passed)
generateInsights(periodData, totalRevenue) ==
    LET sorted == sortedByRevenue(periodData)
        best   == sorted[1]
        worst  == sorted[Len(sorted)]
        bestWorst ==
            IF Len(periodData) > 0
            THEN <<Line("Highest revenue period: ", best.period, best.revenue)>>
                 \o (IF Len(periodData) > 1
                     THEN <<Line("Lowest revenue period: ", worst.period, worst.revenue)>>
                     ELSE <<>>)
            ELSE <<>>
        avgPerPeriod ==
            IF Len(periodData) > 0 THEN RoundDiv(totalRevenue, Len(periodData)) ELSE 0
        totalTransactions == SumCounts(periodData)
    IN  [insights |->
            bestWorst
            \o <<Line("Average revenue per period: ", <<>>, avgPerPeriod)>>
            \o (IF totalTransactions > 0
                THEN <<Line("Processed successful transactions: ", <<>>, totalTransactions)>>
                ELSE <<>>),
         periodData |-> periodData]

----------------------------------------------------------------------------
(* The payments ledger *)

\* limit: 100 of both list requests
Limit == 100

At(y, m, d, hh, mm, ss) == DaysFromCivil(y, m, d) * SecondsPerDay + hh * 3600 + mm * 60 + ss

\* creation instants (UTC): a Sunday's last second, the Monday's first, a
\* month's last day at noon, the next month's first second
SunLate == At(2024, 1, 7, 23, 59, 59)
MonMidnight == At(2024, 1, 8, 0, 0, 0)
WedNoon == At(2024, 1, 31, 12, 0, 0)
ThuMidnight == At(2024, 2, 1, 0, 0, 0)

\* the charges a feed is drawn from, without their ids
ChargeKinds ==
    {[amount |-> 1000, created |-> SunLate, status |-> "succeeded"],
     [amount |-> 1000, created |-> MonMidnight, status |-> "succeeded"],
     [amount |-> 2500, created |-> WedNoon, status |-> "succeeded"],
     [amount |-> 2000, created |-> ThuMidnight, status |-> "succeeded"],
     [amount |-> 9900, created |-> MonMidnight, status |-> "failed"],
     [amount |-> 1000, created |-> WedNoon, status |-> "pending"]}

SeqsUpTo(S, n) == UNION {[1..k -> S] : k \in 0..n}

\* a feed gives its i-th record the id <<prefix, i>>
WithIds(kinds, prefix) ==
    [i \in 1..Len(kinds) |->
        [id |-> <<prefix, i>>] @@ kinds[i]]

ChargeFeeds == {WithIds(k, "ch") : k \in SeqsUpTo(ChargeKinds, MaxFeed)}

\* the records of a feed created within [gte, lte]
Matching(feed, created) ==
    SelectSeq(feed, LAMBDA x : x.created >= created.gte /\ x.created <= created.lte)

\* the records of list that follow the record with id cursor
AfterCursor(list, cursor) ==
    IF cursor = undefined THEN list
    ELSE LET i == CHOOSE k \in 1..Len(list) : list[k].id = cursor
         IN  SubSeq(list, i + 1, Len(list))

\* The pages the ledger may answer a list request with: the records that
\* follow the cursor, at least one of them when there is any and at most the
\* limit, and whether more remain
Pages(feed, request) ==
    LET rest == AfterCursor(Matching(feed, request.created), request.starting_after)
    IN  {[data |-> SubSeq(rest, 1, n), has_more |-> n < Len(rest)] :
            n \in Min(1, Len(rest))..Min(request.limit, Len(rest))}

\* what a rejected request, or the handling of a response that cannot be
\* read, throws: an Error with its message, or a value that is no Error
Thrown ==
    {[isError |-> TRUE, message |-> "Connection error"],
     [isError |-> FALSE, message |-> "aborted"]}

errorMessage(error) == IF error.isError THEN error.message ELSE "Unknown error"

----------------------------------------------------------------------------
(* analyzeRevenueTrends *)

Last(s) == s[Len(s)]

IsDigit(ch) == \E i \in 1..Len(Digits) : Digits[i] = ch
DigitValue(ch) == (CHOOSE i \in 1..Len(Digits) : Digits[i] = ch) - 1

\* new Date(s).getTime() / 1000 for a date-only string: YYYY-MM-DD is read as
\* midnight UTC of that day; anything else here is an Invalid Date (NaN)
DateParse(s) ==
    IF /\ Len(s) = 10
       /\ s[5] = "-" /\ s[8] = "-"
       /\ \A i \in {1, 2, 3, 4, 6, 7, 9, 10} : IsDigit(s[i])
    THEN LET y == DigitValue(s[1]) * 1000 + DigitValue(s[2]) * 100
                    + DigitValue(s[3]) * 10 + DigitValue(s[4])
             m == DigitValue(s[6]) * 10 + DigitValue(s[7])
             d == DigitValue(s[9]) * 10 + DigitValue(s[10])
         IN  IF m \in 1..12 /\ d \in 1..31
             THEN DaysFromCivil(y, m, d) * SecondsPerDay
             ELSE NaN
    ELSE NaN

DateString(y, m, d) ==
    padStart(Decimal(y), 4) \o <<"-">> \o padStart(Decimal(m), 2)
        \o <<"-">> \o padStart(Decimal(d), 2)

\* the arguments the runtime passes: the schema takes any string for the
\* dates and one of three granularities
DateRanges ==
    {<<DateString(2024, 1, 1), DateString(2024, 2, 1)>>,
     <<DateString(2024, 1, 7), DateString(2024, 1, 7)>>,
     <<DateString(2024, 1, 8), DateString(2024, 1, 31)>>,
     <<DateString(2024, 13, 1), DateString(2024, 1, 31)>>}

AnalyzeArgs ==
    {[startDate |-> r[1], endDate |-> r[2], groupBy |-> g] :
        r \in DateRanges, g \in {"day", "week", "month"}}

\* stripe.charges.list({created: {gte, lte}, limit: 100, starting_after})
ChargesRequest(args, startingAfter) ==
    [created |-> [gte |-> DateParse(args.startDate), lte |-> DateParse(args.endDate)],
     limit |-> Limit,
     starting_after |-> startingAfter]

\* a filter that drops only the failed charges
successfulCharges_NotFailed(data) == SelectSeq(data, LAMBDA charge : charge.status # "failed")

\* response.data.filter((charge) => charge.status === "succeeded")
successfulCharges(data) == SelectSeq(data, LAMBDA charge : charge.status = "succeeded")

\* a cursor taken from the first record of the page
NextStartingAfter_First(startingAfter, response) ==
    IF response.has_more /\ Len(response.data) > 0
    THEN response.data[1].id
    ELSE startingAfter

\* if (hasMore && response.data.length > 0) startingAfter = last id
NextStartingAfter(startingAfter, response) ==
    IF response.has_more /\ Len(response.data) > 0
    THEN Last(response.data).id
    ELSE startingAfter

RECURSIVE SumAmounts(_)
SumAmounts(charges) ==
    IF charges = <<>> THEN 0 ELSE charges[1].amount + SumAmounts(Tail(charges))

\* a summary whose average is cut to whole cents instead of rounded
AnalyzeSuccess_Truncated(charges, groupBy) ==
    LET totalRevenue == SumAmounts(charges)
        transactionCount == Len(charges)
        averageTransaction ==
            IF transactionCount > 0 THEN totalRevenue \div transactionCount ELSE 0
        groupedData == groupChargesByPeriod(charges, groupBy)
        generated == generateInsights(groupedData, totalRevenue)
    IN  [summary |-> [totalRevenue |-> totalRevenue,
                      transactionCount |-> transactionCount,
                      averageTransaction |-> averageTransaction],
         periodData |-> generated.periodData,
         insights |-> generated.insights]

\* the payload returned after the loop
AnalyzeSuccess(charges, groupBy) ==
    LET totalRevenue == SumAmounts(charges)
        transactionCount == Len(charges)
        averageTransaction ==
            IF transactionCount > 0 THEN RoundDiv(totalRevenue, transactionCount) ELSE 0
        groupedData == groupChargesByPeriod(charges, groupBy)
        generated == generateInsights(groupedData, totalRevenue)
    IN  [summary |-> [totalRevenue |-> totalRevenue,
                      transactionCount |-> transactionCount,
                      averageTransaction |-> averageTransaction],
         periodData |-> generated.periodData,
         insights |-> generated.insights]

\* a catch block that returns a status and a message only
AnalyzeFailure_StatusMessage(error) ==
    [status |-> "error",
     message |-> "Failed to analyze revenue trends: " \o errorMessage(error)]

\* the payload returned by the catch block
AnalyzeFailure(error) ==
    [summary |-> [totalRevenue |-> 0, transactionCount |-> 0, averageTransaction |-> 0],
     periodData |-> <<>>,
     insights |-> <<>>,
     error |-> "Failed to analyze revenue trends: " \o errorMessage(error)]

NoArgs == [none |-> TRUE]
NoResult == [none |-> TRUE]

\* an invocation not yet made
NewCall(pc) ==
    [pc |-> pc, tool |-> "none", args |-> NoArgs,
     hasMore |-> FALSE, startingAfter |-> undefined,
     charges |-> <<>>, allSessions |-> <<>>,
     requests |-> <<>>, pages |-> <<>>, result |-> NoResult]

\* the request in flight
Awaited(c) == Last(call[c].requests)

\* The runtime invokes the tool: the locals are set and the first page is
\* requested
AnalyzeStart(c) ==
    /\ call[c].pc = "idle"
    /\ \E args \in AnalyzeArgs :
        call' = [call EXCEPT ![c] =
                    [@ EXCEPT !.pc = "awaiting",
                              !.tool = "analyzeRevenueTrends",
                              !.args = args,
                              !.hasMore = TRUE,
                              !.startingAfter = undefined,
                              !.charges = <<>>,
                              !.requests = <<ChargesRequest(args, undefined)>>]]
    /\ UNCHANGED <<chargeFeed, sessionFeed, tz, refunds, proc>>

\* a loop that accumulates into one array kept by the service for all of its
\* invocations
AnalyzeReceive_SharedCharges(c) ==
    /\ call[c].pc = "awaiting"
    /\ call[c].tool = "analyzeRevenueTrends"
    /\ ~isNaN(Awaited(c).created.gte) /\ ~isNaN(Awaited(c).created.lte)
    /\ \E response \in Pages(chargeFeed, Awaited(c)) :
        LET charges == call["c1"].charges \o call["c2"].charges
                            \o successfulCharges(response.data)
            hasMore == response.has_more
            startingAfter == NextStartingAfter(call[c].startingAfter, response)
        IN  call' = [d \in Calls |->
            IF d # c THEN [call[d] EXCEPT !.charges = charges]
            ELSE IF hasMore
            THEN [call[c] EXCEPT !.charges = charges,
                           !.hasMore = hasMore,
                           !.startingAfter = startingAfter,
                           !.pages = Append(@, response),
                           !.requests = Append(@, ChargesRequest(call[c].args, startingAfter))]
            ELSE [call[c] EXCEPT !.pc = "done",
                           !.charges = charges,
                           !.hasMore = hasMore,
                           !.startingAfter = startingAfter,
                           !.pages = Append(@, response),
                           !.result = AnalyzeSuccess(charges, call[c].args.groupBy)]]
    /\ UNCHANGED <<chargeFeed, sessionFeed, tz, refunds, proc>>

\* A page arrives: its succeeded charges are kept; then either the next page
\* is requested or the loop ends and the payload is returned
AnalyzeReceive(c) ==
    /\ call[c].pc = "awaiting"
    /\ call[c].tool = "analyzeRevenueTrends"
    /\ ~isNaN(Awaited(c).created.gte) /\ ~isNaN(Awaited(c).created.lte)
    /\ \E response \in Pages(chargeFeed, Awaited(c)) :
        LET charges == call[c].charges \o successfulCharges(response.data)
            hasMore == response.has_more
            startingAfter == NextStartingAfter(call[c].startingAfter, response)
        IN  call' = [call EXCEPT ![c] =
            \* while (hasMore)
            IF hasMore
            THEN [@ EXCEPT !.charges = charges,
                           !.hasMore = hasMore,
                           !.startingAfter = startingAfter,
                           !.pages = Append(@, response),
                           !.requests = Append(@, ChargesRequest(call[c].args, startingAfter))]
            ELSE [@ EXCEPT !.pc = "done",
                           !.charges = charges,
                           !.hasMore = hasMore,
                           !.startingAfter = startingAfter,
                           !.pages = Append(@, response),
                           !.result = AnalyzeSuccess(charges, call[c].args.groupBy)]]
    /\ UNCHANGED <<chargeFeed, sessionFeed, tz, refunds, proc>>

\* The awaited request rejects, or its response cannot be read: the catch
\* block returns the failure payload
AnalyzeCatch(c) ==
    /\ call[c].pc = "awaiting"
    /\ call[c].tool = "analyzeRevenueTrends"
    /\ \E error \in Thrown :
        call' = [call EXCEPT ![c] =
                    [@ EXCEPT !.pc = "done", !.result = AnalyzeFailure(error)]]
    /\ UNCHANGED <<chargeFeed, sessionFeed, tz, refunds, proc>>

----------------------------------------------------------------------------
(* getPaymentHistory *)

\* A value the ledger may leave out (null or undefined) is <<>> when absent
\* and <<v>> when present; x ?? d is Coalesce(x, d)
null == <<>>
Some(v) == <<v>>
Coalesce(x, d) == IF x = null THEN d ELSE x[1]

\* the first Sunday on or after y-m-d, as a day number
SundayOnOrAfter(y, m, d) ==
    LET day == DaysFromCivil(y, m, d)
    IN  day + ((7 - WeekdayOfDays(day)) % 7)

\* America/Los_Angeles: daylight time from the second Sunday of March, 02:00
\* standard time, to the first Sunday of November, 02:00 daylight time
PacificOffset(t) ==
    LET y == CivilFromDays(t \div SecondsPerDay).y
        dstStart == SundayOnOrAfter(y, 3, 8) * SecondsPerDay + 10 * 3600
        dstEnd == SundayOnOrAfter(y, 11, 1) * SecondsPerDay + 9 * 3600
    IN  IF t >= dstStart /\ t < dstEnd THEN 0 - 7 * 3600 ELSE 0 - 8 * 3600

\* the wall-clock reading of 'YYYY-MM-DD HH:MM:SS', or of 'YYYY-MM-DD' (its
\* midnight), in seconds, or NaN
WallClock(s) ==
    IF Len(s) = 10 THEN DateParse(s)
    ELSE
    IF /\ Len(s) = 19
       /\ s[11] = " " /\ s[14] = ":" /\ s[17] = ":"
       /\ \A i \in {12, 13, 15, 16, 18, 19} : IsDigit(s[i])
       /\ ~isNaN(DateParse(SubSeq(s, 1, 10)))
    THEN DateParse(SubSeq(s, 1, 10))
            + (DigitValue(s[12]) * 10 + DigitValue(s[13])) * 3600
            + (DigitValue(s[15]) * 10 + DigitValue(s[16])) * 60
            + DigitValue(s[18]) * 10 + DigitValue(s[19])
    ELSE NaN

\* Math.floor(fromZonedTime(s, "America/Los_Angeles").getTime() / 1000): the
\* instant whose Pacific wall clock reads s
fromZonedTime(s) ==
    LET wall == WallClock(s)
        standard == wall + 8 * 3600
    IN  IF isNaN(wall) THEN NaN
        ELSE IF PacificOffset(standard) = 0 - 8 * 3600 THEN standard
        ELSE wall + 7 * 3600

\* new Date(t * 1000).toLocaleString("en-US", {timeZone: "America/Los_Angeles"}),
\* as in 1/7/2024, 3:59:59 PM
toLocaleString(t) ==
    LET local == t + PacificOffset(t)
        c     == CivilFromDays(local \div SecondsPerDay)
        sod   == local % SecondsPerDay
        hour  == sod \div 3600
        h12   == IF hour % 12 = 0 THEN 12 ELSE hour % 12
    IN  Decimal(c.m) \o <<"/">> \o Decimal(c.d) \o <<"/">> \o Decimal(c.y)
            \o <<",", " ">> \o Decimal(h12)
            \o <<":">> \o padStart(Decimal((sod % 3600) \div 60), 2)
            \o <<":">> \o padStart(Decimal(sod % 60), 2)
            \o <<" ">> \o (IF hour < 12 THEN <<"A", "M">> ELSE <<"P", "M">>)

DateTimeString(y, m, d, time) == DateString(y, m, d) \o <<" ">> \o time

\* the checkout sessions a feed is drawn from, without their ids: one with
\* every field, one with every optional field absent, one with the optional
\* fields of its customer, line item and metadata absent
SessionKinds ==
    {[created |-> SunLate, amount_total |-> Some(3500),
      payment_intent |-> Some("pi_1"),
      customer_details |-> Some([name |-> Some("Ada"), email |-> Some("ada@example.com"),
                                 phone |-> Some("+15550100")]),
      line_items |-> Some([data |-> <<[description |-> Some("Curry"),
                                        price |-> Some([unit_amount |-> Some(1500)]),
                                        quantity |-> Some(2),
                                        amount_total |-> 3000]>>]),
      metadata |-> Some([delivery_address |-> Some("1 Shields Ave")]),
      shipping_cost |-> Some([amount_total |-> 500])],
     [created |-> MonMidnight, amount_total |-> null,
      payment_intent |-> null,
      customer_details |-> null,
      line_items |-> null,
      metadata |-> null,
      shipping_cost |-> null],
     [created |-> WedNoon, amount_total |-> Some(1250),
      payment_intent |-> Some("pi_3"),
      customer_details |-> Some([name |-> null, email |-> Some("bo@example.com"),
                                 phone |-> null]),
      line_items |-> Some([data |-> <<[description |-> null,
                                        price |-> null,
                                        quantity |-> null,
                                        amount_total |-> 1250]>>]),
      metadata |-> Some([delivery_address |-> null]),
      shipping_cost |-> null]}

SessionFeeds == {WithIds(k, "cs") : k \in SeqsUpTo(SessionKinds, MaxFeed)}

\* the arguments the runtime passes: the schema takes any string
HistoryArgs ==
    {[startDate |-> DateTimeString(2024, 1, 1, <<"0", "0", ":", "0", "0", ":", "0", "0">>),
      endDate |-> DateTimeString(2024, 1, 31, <<"2", "3", ":", "5", "9", ":", "5", "9">>)],
     [startDate |-> DateTimeString(2024, 1, 7, <<"1", "6", ":", "0", "0", ":", "0", "0">>),
      endDate |-> DateTimeString(2024, 1, 7, <<"1", "6", ":", "0", "0", ":", "0", "0">>)],
     [startDate |-> DateTimeString(2024, 13, 1, <<"0", "0", ":", "0", "0", ":", "0", "0">>),
      endDate |-> DateString(2024, 2, 1)]}

\* stripe.checkout.sessions.list({limit: 100, status: "complete",
\* expand: ["data.line_items"], created: {gte, lte}, starting_after})
SessionsRequest(args, startingAfter) ==
    [created |-> [gte |-> fromZonedTime(args.startDate), lte |-> fromZonedTime(args.endDate)],
     limit |-> Limit,
     status |-> "complete",
     expand |-> <<"data.line_items">>,
     starting_after |-> startingAfter]

\* the record one session is reshaped into
Payment(session) ==
    LET customer == session.customer_details
        customerDetails ==
            [name  |-> IF customer = null THEN null ELSE customer[1].name,
             email |-> IF customer = null THEN null ELSE customer[1].email,
             phone |-> IF customer = null THEN null ELSE customer[1].phone]
        items == IF session.line_items = null THEN <<>> ELSE session.line_items[1].data
        lineItems ==
            [i \in 1..Len(items) |->
                [name |-> items[i].description,
                 unitPrice |-> IF items[i].price = null THEN 0
                               ELSE Coalesce(items[i].price[1].unit_amount, 0),
                 quantity |-> items[i].quantity,
                 totalAmount |-> items[i].amount_total]]
        shippingDetails ==
            [address |-> IF session.metadata = null THEN null
                         ELSE session.metadata[1].delivery_address,
             totalAmount |-> IF session.shipping_cost = null THEN 0
                             ELSE session.shipping_cost[1].amount_total]
    IN  [paymentIntentId |-> session.payment_intent,
         date |-> toLocaleString(session.created),
         totalAmount |-> Coalesce(session.amount_total, 0),
         customerDetails |-> customerDetails,
         lineItems |-> lineItems,
         shippingDetails |-> shippingDetails]

RECURSIVE SumTotals(_)
SumTotals(payments) ==
    IF payments = <<>> THEN 0 ELSE payments[1].totalAmount + SumTotals(Tail(payments))

\* a payload that leaves out the sessions without an amount
HistorySuccess_PaidOnly(allSessions) ==
    LET paid == SelectSeq(allSessions, LAMBDA session : session.amount_total # null)
        payments == [i \in 1..Len(paid) |-> Payment(paid[i])]
    IN  [payments |-> payments,
         summary |-> [totalPayments |-> Len(payments),
                      totalRevenue |-> SumTotals(payments)]]

\* the payload returned after the loop
HistorySuccess(allSessions) ==
    LET payments == [i \in 1..Len(allSessions) |-> Payment(allSessions[i])]
    IN  [payments |-> payments,
         summary |-> [totalPayments |-> Len(payments),
                      totalRevenue |-> SumTotals(payments)]]

\* a catch block that reports no error
HistoryFailure_NoError(error) ==
    [payments |-> <<>>,
     summary |-> [totalPayments |-> 0, totalRevenue |-> 0]]

\* the payload returned by the catch block
HistoryFailure(error) ==
    [payments |-> <<>>,
     summary |-> [totalPayments |-> 0, totalRevenue |-> 0],
     error |-> "Failed to retrieve payment history: " \o errorMessage(error)]

HistoryStart(c) ==
    /\ call[c].pc = "idle"
    /\ \E args \in HistoryArgs :
        call' = [call EXCEPT ![c] =
                    [@ EXCEPT !.pc = "awaiting",
                              !.tool = "getPaymentHistory",
                              !.args = args,
                              !.hasMore = TRUE,
                              !.startingAfter = undefined,
                              !.allSessions = <<>>,
                              !.requests = <<SessionsRequest(args, undefined)>>]]
    /\ UNCHANGED <<chargeFeed, sessionFeed, tz, refunds, proc>>

HistoryReceive(c) ==
    /\ call[c].pc = "awaiting"
    /\ call[c].tool = "getPaymentHistory"
    /\ ~isNaN(Awaited(c).created.gte) /\ ~isNaN(Awaited(c).created.lte)
    /\ \E sessions \in Pages(sessionFeed, Awaited(c)) :
        LET allSessions == call[c].allSessions \o sessions.data
            hasMore == sessions.has_more
            startingAfter == NextStartingAfter(call[c].startingAfter, sessions)
        IN  call' = [call EXCEPT ![c] =
            \* while (hasMore)
            IF hasMore
            THEN [@ EXCEPT !.allSessions = allSessions,
                           !.hasMore = hasMore,
                           !.startingAfter = startingAfter,
                           !.pages = Append(@, sessions),
                           !.requests = Append(@, SessionsRequest(call[c].args, startingAfter))]
            ELSE [@ EXCEPT !.pc = "done",
                           !.allSessions = allSessions,
                           !.hasMore = hasMore,
                           !.startingAfter = startingAfter,
                           !.pages = Append(@, sessions),
                           !.result = HistorySuccess(allSessions)]]
    /\ UNCHANGED <<chargeFeed, sessionFeed, tz, refunds, proc>>

HistoryCatch(c) ==
    /\ call[c].pc = "awaiting"
    /\ call[c].tool = "getPaymentHistory"
    /\ \E error \in Thrown :
        call' = [call EXCEPT ![c] =
                    [@ EXCEPT !.pc = "done", !.result = HistoryFailure(error)]]
    /\ UNCHANGED <<chargeFeed, sessionFeed, tz, refunds, proc>>

----------------------------------------------------------------------------
(* A ledger that answers with an empty page *)

\* a response that holds no record and reports that more are available
EmptyPage == [data |-> <<>>, has_more |-> TRUE]

\* analyzeRevenueTrends receives the empty page: the loop body runs on it and
\* the next page is requested
AnalyzeReceiveEmpty(c) ==
    /\ call[c].pc = "awaiting"
    /\ call[c].tool = "analyzeRevenueTrends"
    /\ ~isNaN(Awaited(c).created.gte) /\ ~isNaN(Awaited(c).created.lte)
    /\ Len(call[c].requests) < MaxRequests
    /\ LET response == EmptyPage
           charges == call[c].charges \o successfulCharges(response.data)
           hasMore == response.has_more
           startingAfter == NextStartingAfter(call[c].startingAfter, response)
       IN  call' = [call EXCEPT ![c] =
                [@ EXCEPT !.charges = charges,
                          !.hasMore = hasMore,
                          !.startingAfter = startingAfter,
                          !.pages = Append(@, response),
                          !.requests = Append(@, ChargesRequest(call[c].args, startingAfter))]]
    /\ UNCHANGED <<chargeFeed, sessionFeed, tz, refunds, proc>>

\* getPaymentHistory receives the empty page
HistoryReceiveEmpty(c) ==
    /\ call[c].pc = "awaiting"
    /\ call[c].tool = "getPaymentHistory"
    /\ ~isNaN(Awaited(c).created.gte) /\ ~isNaN(Awaited(c).created.lte)
    /\ Len(call[c].requests) < MaxRequests
    /\ LET sessions == EmptyPage
           allSessions == call[c].allSessions \o sessions.data
           hasMore == sessions.has_more
           startingAfter == NextStartingAfter(call[c].startingAfter, sessions)
       IN  call' = [call EXCEPT ![c] =
                [@ EXCEPT !.allSessions = allSessions,
                          !.hasMore = hasMore,
                          !.startingAfter = startingAfter,
                          !.pages = Append(@, sessions),
                          !.requests = Append(@, SessionsRequest(call[c].args, startingAfter))]]
    /\ UNCHANGED <<chargeFeed, sessionFeed, tz, refunds, proc>>

----------------------------------------------------------------------------
(* issueRefund *)

\* s.startsWith(prefix), on strings kept as sequences of characters
startsWith(s, prefix) ==
    Len(s) >= Len(prefix) /\ SubSeq(s, 1, Len(prefix)) = prefix

\* the payments the ledger holds, with the amount charged, in cents
Charged ==
    [p \in {<<"p", "i", "_", "1">>, <<"p", "i", "_", "3">>} |->
        IF p = <<"p", "i", "_", "1">> THEN 3500 ELSE 1250]

\* The arguments an invocation may carry: a payment the ledger holds, one it does
\* not, and an identifier of another kind; the amount is a number of dollars,
\* kept in thousandths (12504 is 12.504)
RefundArgs ==
    {[paymentIntentId |-> p, amount |-> a] :
        p \in {<<"p", "i", "_", "1">>, <<"p", "i", "_", "9">>, <<"c", "s", "_", "1">>},
        a \in {12504, 35000, 50000}}

\* inputSchema: paymentIntentId is a string that starts with "pi_"
RefundSchema(args) == startsWith(args.paymentIntentId, <<"p", "i", "_">>)

\* stripe.refunds.create({payment_intent, amount: Math.round(amount * 100)})
RefundRequest(args) ==
    [payment_intent |-> args.paymentIntentId,
     amount |-> RoundDiv(args.amount, 10)]

\* the cents the ledger has refunded of a payment
RECURSIVE Refunded(_, _)
Refunded(recorded, payment) ==
    IF recorded = <<>> THEN 0
    ELSE (IF recorded[1].payment_intent = payment THEN recorded[1].amount ELSE 0)
            + Refunded(Tail(recorded), payment)

\* the ledger takes a refund of a payment it holds, of a positive amount that
\* what is left of the payment covers
Refundable(recorded, request) ==
    /\ request.payment_intent \in DOMAIN Charged
    /\ request.amount >= 1
    /\ Refunded(recorded, request.payment_intent) + request.amount
            <= Charged[request.payment_intent]

\* the refund object the ledger creates for a request
Refund(recorded, request) ==
    [id |-> <<"re", Len(recorded) + 1>>,
     payment_intent |-> request.payment_intent,
     amount |-> request.amount]

\* the error the ledger rejects a refund with
Rejection(request) ==
    [isError |-> TRUE,
     message |-> IF request.payment_intent \in DOMAIN Charged
                 THEN "Refund amount is greater than unrefunded amount on charge"
                 ELSE "No such payment_intent"]

\* a return that echoes the requested amount
RefundSuccess_Requested(refund, args) ==
    [status |-> "success", amountRefunded |-> args.amount]

\* return {status: "success", amountRefunded: refund.amount / 100}: dollars,
\* kept in thousandths as the amount of the arguments is
RefundSuccess(refund, args) ==
    [status |-> "success", amountRefunded |-> refund.amount * 10]

\* the payload returned by the catch block
RefundFailure(error) ==
    [status |-> "error",
     amountRefunded |-> 0,
     error |-> "Failed to issue refund: " \o errorMessage(error)]

\* The runtime is asked to invoke the tool with arguments its input schema
\* does not admit: the function is not called
RefundInvalid(c) ==
    /\ call[c].pc = "idle"
    /\ \E args \in RefundArgs :
        /\ ~RefundSchema(args)
        /\ call' = [call EXCEPT ![c] =
                        [@ EXCEPT !.pc = "invalid", !.tool = "issueRefund", !.args = args]]
    /\ UNCHANGED <<chargeFeed, sessionFeed, tz, refunds, proc>>

\* The runtime invokes the tool: the refund is requested
RefundStart(c) ==
    /\ call[c].pc = "idle"
    /\ \E args \in RefundArgs :
        /\ RefundSchema(args)
        /\ call' = [call EXCEPT ![c] =
                        [@ EXCEPT !.pc = "awaiting",
                                  !.tool = "issueRefund",
                                  !.args = args,
                                  !.requests = <<RefundRequest(args)>>]]
    /\ UNCHANGED <<chargeFeed, sessionFeed, tz, refunds, proc>>

\* The ledger creates the refund and answers with it: the success payload is
\* returned
RefundReceive(c) ==
    /\ call[c].pc = "awaiting"
    /\ call[c].tool = "issueRefund"
    /\ Refundable(refunds, Awaited(c))
    /\ LET refund == Refund(refunds, Awaited(c))
       IN  /\ refunds' = Append(refunds, refund)
           /\ call' = [call EXCEPT ![c] =
                        [@ EXCEPT !.pc = "done",
                                  !.pages = <<refund>>,
                                  !.result = RefundSuccess(refund, call[c].args)]]
    /\ UNCHANGED <<chargeFeed, sessionFeed, tz, proc>>

\* a catch block that sends the request again when it failed on the way
RefundCatch_Retry(c) ==
    /\ call[c].pc = "awaiting"
    /\ call[c].tool = "issueRefund"
    /\ \/ /\ ~Refundable(refunds, Awaited(c))
          /\ call' = [call EXCEPT ![c] =
                        [@ EXCEPT !.pc = "done",
                                  !.result = RefundFailure(Rejection(Awaited(c)))]]
          /\ UNCHANGED refunds
       \/ /\ Len(call[c].requests) < 3
          /\ call' = [call EXCEPT ![c] =
                        [@ EXCEPT !.requests = Append(@, RefundRequest(call[c].args))]]
          /\ \/ UNCHANGED refunds
             \/ /\ Refundable(refunds, Awaited(c))
                /\ refunds' = Append(refunds, Refund(refunds, Awaited(c)))
    /\ UNCHANGED <<chargeFeed, sessionFeed, tz, proc>>

\* The awaited request rejects: the ledger refuses the refund, or the request
\* fails on its way to the ledger, or the answer fails on its way back, the
\* refund being created; the catch block returns the failure payload
RefundCatch(c) ==
    /\ call[c].pc = "awaiting"
    /\ call[c].tool = "issueRefund"
    /\ \/ /\ ~Refundable(refunds, Awaited(c))
          /\ call' = [call EXCEPT ![c] =
                        [@ EXCEPT !.pc = "done",
                                  !.result = RefundFailure(Rejection(Awaited(c)))]]
          /\ UNCHANGED refunds
       \/ /\ \E error \in Thrown :
                call' = [call EXCEPT ![c] =
                            [@ EXCEPT !.pc = "done", !.result = RefundFailure(error)]]
          /\ \/ UNCHANGED refunds
             \/ /\ Refundable(refunds, Awaited(c))
                /\ refunds' = Append(refunds, Refund(refunds, Awaited(c)))
    /\ UNCHANGED <<chargeFeed, sessionFeed, tz, proc>>

----------------------------------------------------------------------------
(* The process: index.ts and daemoService.ts *)

\* the HTTP connections that may be open at once, and the signals the
\* process may be sent
MaxOpen == 2
MaxSignals == 3

\* The process once app.listen has called back: the callback has run
\* initializeDaemo and startConnection up to its await, so the hosted
\* connection is starting and daemoConnection is still null
Listening ==
    [server |-> "listening",
     open |-> 0,
     connection |-> "starting",
     daemoConnection |-> null,
     daemoClient |-> null,
     signals |-> <<>>,
     closeCallbacks |-> 0,
     stops |-> 0,
     exit |-> "running"]

Running == proc.exit = "running"

\* The callback given to server.close, run when the server has closed:
\* if (daemoConnection) stopConnection(daemoConnection); process.exit(0)
Closed(p) ==
    IF p.daemoConnection # null
    THEN [p EXCEPT !.server = "closed",
                   !.connection = "stopped",
                   !.stops = @ + 1,
                   !.exit = "exit(0)"]
    ELSE [p EXCEPT !.server = "closed", !.exit = "exit(0)"]

\* gracefulShutdown(signal): server.close(callback) stops the server from
\* accepting connections and registers the callback for when it has closed
Shutdown(p, signal) ==
    [p EXCEPT !.signals = Append(@, signal),
              !.closeCallbacks = @ + 1,
              !.server = "closing"]

\* a client opens a connection to the listening server (GET /health)
Connect ==
    /\ Running
    /\ proc.server = "listening"
    /\ proc.open < MaxOpen
    /\ proc' = [proc EXCEPT !.open = @ + 1]
    /\ UNCHANGED <<chargeFeed, sessionFeed, tz, call, refunds>>

\* a connection ends
Disconnect ==
    /\ Running
    /\ proc.open > 0
    /\ proc' = [proc EXCEPT !.open = @ - 1]
    /\ UNCHANGED <<chargeFeed, sessionFeed, tz, call, refunds>>

\* The closing server has no connection left: it has closed, and the first
\* callback registered for that runs and ends the process
ServerClosed ==
    /\ Running
    /\ proc.server = "closing"
    /\ proc.open = 0
    /\ proc' = Closed(proc)
    /\ UNCHANGED <<chargeFeed, sessionFeed, tz, call, refunds>>

\* await hostedConnection.start() resolves: the listen callback goes on,
\* daemoConnection and daemoClient are assigned
StartResolved ==
    /\ Running
    /\ proc.connection = "starting"
    /\ proc' = [proc EXCEPT !.connection = "started",
                            !.daemoConnection = Some("hostedConnection"),
                            !.daemoClient = Some("client")]
    /\ UNCHANGED <<chargeFeed, sessionFeed, tz, call, refunds>>

\* await hostedConnection.start() rejects: the listen callback ends with an
\* unhandled rejection, on which the runtime either ends the process or only
\* warns
StartRejected ==
    /\ Running
    /\ proc.connection = "starting"
    /\ \/ proc' = [proc EXCEPT !.connection = "failed", !.exit = "crash"]
       \/ proc' = [proc EXCEPT !.connection = "failed"]
    /\ UNCHANGED <<chargeFeed, sessionFeed, tz, call, refunds>>

\* process.on("SIGTERM" / "SIGINT", gracefulShutdown)
Signal ==
    /\ Running
    /\ Len(proc.signals) < MaxSignals
    /\ \E signal \in {"SIGTERM", "SIGINT"} : proc' = Shutdown(proc, signal)
    /\ UNCHANGED <<chargeFeed, sessionFeed, tz, call, refunds>>

----------------------------------------------------------------------------
(* Specification *)

\* the zones the process may run in: UTC, and eight hours west of it
TimeZones == {0, 0 - 8 * 3600}

\* The service is constructed and no tool has been invoked.  The ledger holds
\* a feed of charges or a feed of checkout sessions; the runtime makes one
\* invocation, c1.
Init ==
    /\ tz \in TimeZones
    /\ \/ chargeFeed \in ChargeFeeds /\ sessionFeed = <<>>
       \/ chargeFeed = <<>> /\ sessionFeed \in SessionFeeds
    /\ call = [c \in Calls |-> IF c = "c1" THEN NewCall("idle") ELSE NewCall("off")]
    /\ refunds = <<>>
    /\ proc = Listening

Next ==
    \E c \in Calls :
        \/ AnalyzeStart(c)
        \/ AnalyzeReceive(c)
        \/ AnalyzeCatch(c)
        \/ HistoryStart(c)
        \/ HistoryReceive(c)
        \/ HistoryCatch(c)

Spec == Init /\ [][Next]_vars

\* a ledger that holds two succeeded charges and two completed sessions
ConcurrentCharges ==
    WithIds(<<[amount |-> 1000, created |-> SunLate, status |-> "succeeded"],
              [amount |-> 2500, created |-> WedNoon, status |-> "succeeded"]>>, "ch")

ConcurrentSessions ==
    WithIds(<<CHOOSE s \in SessionKinds : s.created = SunLate,
              CHOOSE s \in SessionKinds : s.created = WedNoon>>, "cs")

\* The service is constructed and the runtime makes two invocations, c1 and
\* c2, as unsynchronized tasks: each is any of the two listing tools, and
\* their steps interleave in any order.
InitConcurrent ==
    /\ tz \in TimeZones
    /\ chargeFeed = ConcurrentCharges
    /\ sessionFeed = ConcurrentSessions
    /\ call = [c \in Calls |-> NewCall("idle")]
    /\ refunds = <<>>
    /\ proc = Listening

SpecConcurrent == InitConcurrent /\ [][Next]_vars

\* The service is constructed and the runtime makes one invocation, c1, of a
\* listing tool; the ledger holds two charges and two sessions and may answer
\* any page request with an empty page that reports more.
InitEmptyPages ==
    /\ tz \in TimeZones
    /\ chargeFeed = ConcurrentCharges
    /\ sessionFeed = ConcurrentSessions
    /\ call = [c \in Calls |-> IF c = "c1" THEN NewCall("idle") ELSE NewCall("off")]
    /\ refunds = <<>>
    /\ proc = Listening

NextEmptyPages ==
    \E c \in Calls :
        \/ AnalyzeStart(c)
        \/ AnalyzeReceive(c)
        \/ AnalyzeReceiveEmpty(c)
        \/ AnalyzeCatch(c)
        \/ HistoryStart(c)
        \/ HistoryReceive(c)
        \/ HistoryReceiveEmpty(c)
        \/ HistoryCatch(c)

SpecEmptyPages == InitEmptyPages /\ [][NextEmptyPages]_vars

\* The process is listening; no tool is invoked.
InitProcess ==
    /\ tz = 0
    /\ chargeFeed = <<>>
    /\ sessionFeed = <<>>
    /\ call = [c \in Calls |-> NewCall("off")]
    /\ refunds = <<>>
    /\ proc = Listening

NextProcess ==
    \/ Connect
    \/ Disconnect
    \/ ServerClosed
    \/ StartResolved
    \/ StartRejected
    \/ Signal

SpecProcess == InitProcess /\ [][NextProcess]_vars

\* The service is constructed and the runtime may make two invocations of
\* issueRefund, in any interleaving; the ledger has recorded no refund.
InitRefund ==
    /\ tz = 0
    /\ chargeFeed = <<>>
    /\ sessionFeed = <<>>
    /\ call = [c \in Calls |-> NewCall("idle")]
    /\ refunds = <<>>
    /\ proc = Listening

NextRefund ==
    \E c \in Calls :
        \/ RefundInvalid(c)
        \/ RefundStart(c)
        \/ RefundReceive(c)
        \/ RefundCatch(c)

SpecRefund == InitRefund /\ [][NextRefund]_vars

----------------------------------------------------------------------------
(* Properties *)

Analyzing(c) == call[c].tool = "analyzeRevenueTrends"
Retrieving(c) == call[c].tool = "getPaymentHistory"

\* the invocation has returned, with or without the error field
Returned(c) == call[c].pc = "done"
Failed(c) == Returned(c) /\ "error" \in DOMAIN call[c].result
Succeeded(c) == Returned(c) /\ "error" \notin DOMAIN call[c].result

\* the creation-time filter the invocation sent
Filter(c) == call[c].requests[1].created

Without(s, i) == SubSeq(s, 1, i - 1) \o SubSeq(s, i + 1, Len(s))

RECURSIVE Flatten(_)
Flatten(pages) ==
    IF pages = <<>> THEN <<>> ELSE pages[1].data \o Flatten(Tail(pages))

OnlySucceeded(records) == SelectSeq(records, LAMBDA x : x.status = "succeeded")

ZeroSummary == [totalRevenue |-> 0, transactionCount |-> 0, averageTransaction |-> 0]

\* C1: a charge whose status is not "succeeded" contributes nothing to the
\* result of analyzeRevenueTrends: whatever the feed, the page split and the
\* charge's amount, totalRevenue, transactionCount and periodData are those
\* of the analysis of the feed with that charge removed.
C1_NonSucceededContributesNothing ==
    \A c \in Calls :
        Analyzing(c) /\ Succeeded(c) =>
            \A i \in 1..Len(chargeFeed) :
                chargeFeed[i].status # "succeeded" =>
                    LET absent == Matching(Without(chargeFeed, i), Filter(c))
                        ref == AnalyzeSuccess(OnlySucceeded(absent), call[c].args.groupBy)
                        got == call[c].result
                    IN  /\ got.summary.totalRevenue = ref.summary.totalRevenue
                        /\ got.summary.transactionCount = ref.summary.transactionCount
                        /\ got.periodData = ref.periodData

\* C1 witness: an analysis returned over two pages of a feed that holds a
\* failed charge of 9900 within the range beside a succeeded one
C1_Witness ==
    \E c \in Calls :
        /\ Analyzing(c) /\ Succeeded(c)
        /\ Len(call[c].pages) = 2
        /\ \E i \in 1..Len(chargeFeed) :
            /\ chargeFeed[i].status = "failed" /\ chargeFeed[i].amount = 9900
            /\ \E k \in 1..2 : \E j \in 1..Len(call[c].pages[k].data) :
                    call[c].pages[k].data[j] = chargeFeed[i]
        /\ call[c].result.summary.transactionCount = 1

\* C2: analyzeRevenueTrends never raises to its caller: an invocation is
\* either awaiting a page or has returned a payload, and when a request of
\* it went unanswered (it failed) the payload is the zeroed summary, empty
\* periodData and insights, and a non-empty error message.
C2_FailSoft ==
    \A c \in Calls :
        Analyzing(c) =>
            /\ call[c].pc \in {"awaiting", "done"}
            /\ Returned(c) /\ Len(call[c].pages) < Len(call[c].requests) =>
                /\ DOMAIN call[c].result = {"summary", "periodData", "insights", "error"}
                /\ call[c].result.summary = ZeroSummary
                /\ call[c].result.periodData = <<>>
                /\ call[c].result.insights = <<>>
                /\ call[c].result.error # ""

\* C2 witness: an analysis whose second page request failed after a first
\* page with a succeeded charge, and has returned
C2_Witness ==
    \E c \in Calls :
        /\ Analyzing(c) /\ Returned(c)
        /\ Len(call[c].requests) = 2 /\ Len(call[c].pages) = 1
        /\ call[c].charges # <<>>

\* C3: while no request fails, analyzeRevenueTrends asks for pages of at
\* most 100 records one at a time; the first request carries no cursor and
\* each later one the id of the last record of the page before it, filtered
\* out or not; a page with has_more is always followed by a request and the page
\* without it ends the loop; the charges aggregated are the succeeded
\* charges of the pages received, which at the end are exactly the succeeded
\* charges the feed holds in the range, each once and in feed order.
C3_Pagination ==
    \A c \in Calls :
        Analyzing(c) /\ ~Failed(c) =>
            LET rq == call[c].requests
                pg == call[c].pages
            IN  /\ Len(rq) = Len(pg) + (IF Returned(c) THEN 0 ELSE 1)
                /\ \A k \in 1..Len(rq) : rq[k].limit = 100
                /\ \A k \in 1..Len(pg) : Len(pg[k].data) <= 100
                /\ rq[1].starting_after = undefined
                /\ \A k \in 2..Len(rq) :
                        /\ pg[k - 1].data # <<>>
                        /\ rq[k].starting_after = Last(pg[k - 1].data).id
                /\ \A k \in 1..Len(pg) : pg[k].has_more <=> k < Len(rq)
                /\ Returned(c) <=> (pg # <<>> /\ ~Last(pg).has_more)
                /\ call[c].charges = OnlySucceeded(Flatten(pg))
                /\ Returned(c) =>
                    /\ call[c].charges = OnlySucceeded(Matching(chargeFeed, Filter(c)))
                    /\ call[c].result.summary.transactionCount = Len(call[c].charges)

\* C3 witness: an analysis returned after a first page of two records, the
\* last of them not succeeded, and a second page holding a succeeded charge
C3_Witness ==
    \E c \in Calls :
        /\ Analyzing(c) /\ Succeeded(c)
        /\ Len(call[c].pages) = 2
        /\ Len(call[c].pages[1].data) = 2
        /\ Last(call[c].pages[1].data).status # "succeeded"
        /\ call[c].requests[2].starting_after = Last(call[c].pages[1].data).id
        /\ Len(call[c].charges) = 1

\* the payload lists and totals a failed invocation returns
FailurePayload(c) ==
    IF Analyzing(c)
    THEN /\ DOMAIN call[c].result = {"summary", "periodData", "insights", "error"}
         /\ call[c].result.summary = ZeroSummary
         /\ call[c].result.periodData = <<>>
         /\ call[c].result.insights = <<>>
    ELSE /\ DOMAIN call[c].result = {"payments", "summary", "error"}
         /\ call[c].result.summary = [totalPayments |-> 0, totalRevenue |-> 0]
         /\ call[c].result.payments = <<>>

\* C4: in analyzeRevenueTrends and getPaymentHistory, when the request for
\* page k fails after pages 1..k-1 were received, the invocation returns at
\* once: the failed request is its last (no retry, no further page), the
\* payload is the failure payload with none of the records of pages 1..k-1,
\* and nothing is requested after the return.
C4_FailedPageAborts ==
    /\ [](\A c \in Calls :
            Returned(c) /\ Len(call[c].pages) < Len(call[c].requests) =>
                /\ Len(call[c].requests) = Len(call[c].pages) + 1
                /\ FailurePayload(c))
    /\ [][\A c \in Calls :
            /\ Returned(c) => call'[c] = call[c]
            /\ call[c].pc = "awaiting" /\ Len(call'[c].pages) = Len(call[c].pages)
                    /\ call'[c] # call[c]
                => Returned(c)' /\ call'[c].requests = call[c].requests]_vars

\* C4 witness: a payment history whose second page request failed after a
\* first page of sessions, and has returned
C4_Witness ==
    \E c \in Calls :
        /\ Retrieving(c) /\ Failed(c)
        /\ Len(call[c].requests) = 2 /\ Len(call[c].pages) = 1
        /\ call[c].allSessions # <<>>

\* the UTC day number of an instant
UTCDay(t) == t \div SecondsPerDay

\* C5, as claimed: the date range of analyzeRevenueTrends includes the whole
\* end date: every succeeded charge created on startDate, on endDate or on a
\* UTC day between them is within the creation-time filter sent to the
\* ledger, and is counted.
C5_WholeEndDateIncluded ==
    \A c \in Calls :
        Analyzing(c) /\ Succeeded(c) =>
            \A i \in 1..Len(chargeFeed) :
                /\ chargeFeed[i].status = "succeeded"
                /\ UTCDay(chargeFeed[i].created) >= UTCDay(DateParse(call[c].args.startDate))
                /\ UTCDay(chargeFeed[i].created) <= UTCDay(DateParse(call[c].args.endDate))
                => /\ chargeFeed[i].created >= Filter(c).gte
                   /\ chargeFeed[i].created <= Filter(c).lte
                   /\ \E k \in 1..Len(call[c].charges) : call[c].charges[k] = chargeFeed[i]

\* the date of the Monday on or before the UTC date of an instant:
\* date - ((weekday_index + 6) % 7) days, Sunday = 0
MondayOnOrBefore(t) ==
    ISODate((UTCDay(t) - ((WeekdayOfDays(UTCDay(t)) + 6) % 7)) * SecondsPerDay)

\* C6, as claimed: grouped by week, the period key of every transaction is
\* the date of the Monday on or before its creation date, so the period
\* labels returned are exactly those Mondays.
C6_WeekKeyIsMondayOnOrBefore ==
    \A c \in Calls :
        Analyzing(c) /\ Succeeded(c) /\ call[c].args.groupBy = "week" =>
            {call[c].result.periodData[i].period :
                    i \in 1..Len(call[c].result.periodData)}
                = {MondayOnOrBefore(call[c].charges[k].created) :
                    k \in 1..Len(call[c].charges)}

\* the payload of an analysis that found no succeeded charge, but for its insights
EmptyAnalysis(c) ==
    /\ DOMAIN call[c].result = {"summary", "periodData", "insights"}
    /\ call[c].result.summary = ZeroSummary
    /\ call[c].result.periodData = <<>>

\* C7, as claimed: when the feed returns no transaction, or only
\* non-succeeded ones, for the range, the analysis returns a zero summary,
\* periodData = [] and insights = [], with no error field.
C7_EmptyFeedNoInsights ==
    \A c \in Calls :
        Analyzing(c) /\ Succeeded(c) /\ call[c].charges = <<>> =>
            EmptyAnalysis(c) /\ call[c].result.insights = <<>>

\* C7, amended: when the feed returns no transaction, or only non-succeeded
\* ones, for the range, the analysis returns a zero summary, periodData = []
\* and exactly one insight, the line "Average revenue per period: $0.00",
\* with no error field.
C7_EmptyFeedAverageLineOnly ==
    \A c \in Calls :
        Analyzing(c) /\ Succeeded(c) /\ call[c].charges = <<>> =>
            /\ EmptyAnalysis(c)
            /\ call[c].result.insights = <<Line("Average revenue per period: ", <<>>, 0)>>

\* C7 witness: an analysis returned without error over a range in which the
\* feed holds charges, none of them succeeded
C7_Witness ==
    \E c \in Calls :
        /\ Analyzing(c) /\ Succeeded(c)
        /\ call[c].charges = <<>>
        /\ Flatten(call[c].pages) # <<>>

RECURSIVE SumRevenue(_)
SumRevenue(periodData) ==
    IF periodData = <<>> THEN 0 ELSE periodData[1].revenue + SumRevenue(Tail(periodData))

\* C8: for every non-empty set of succeeded transactions and every
\* granularity, the revenues of the periodData entries add up to
\* summary.totalRevenue: exactly, the amounts being whole cents, and so
\* within one cent per bucket.
C8_BucketsSumToTotal ==
    \A c \in Calls :
        Analyzing(c) /\ Succeeded(c) /\ call[c].charges # <<>> =>
            SumRevenue(call[c].result.periodData) = call[c].result.summary.totalRevenue

\* C8 witness: an analysis of three succeeded charges in two buckets
C8_Witness ==
    \E c \in Calls :
        /\ Analyzing(c) /\ Succeeded(c)
        /\ Len(call[c].charges) = 3
        /\ Len(call[c].result.periodData) = 2

\* the period keys of the charges an invocation aggregated
KeysOf(c) ==
    {periodKey(call[c].charges[k].created, call[c].args.groupBy, tz) :
        k \in 1..Len(call[c].charges)}

\* C9: the periodData returned has exactly one entry per distinct period key
\* among the succeeded transactions, each with the number of transactions of
\* that key (never 0), and is strictly ascending by period label, also after
\* the insights were generated from it; no transactions give no entry.
C9_PeriodDataOrdered ==
    \A c \in Calls :
        Analyzing(c) /\ Succeeded(c) =>
            LET pd == call[c].result.periodData
            IN  /\ {pd[i].period : i \in 1..Len(pd)} = KeysOf(c)
                /\ Len(pd) = Cardinality(KeysOf(c))
                /\ \A i \in 1..Len(pd) :
                    /\ pd[i].transactionCount > 0
                    /\ pd[i].transactionCount =
                        Cardinality({k \in 1..Len(call[c].charges) :
                            periodKey(call[c].charges[k].created,
                                      call[c].args.groupBy, tz) = pd[i].period})
                /\ \A i \in 1..Len(pd) : \A j \in 1..Len(pd) :
                    i < j => localeCompare(pd[i].period, pd[j].period) < 0
                /\ call[c].charges = <<>> => pd = <<>>

\* C9 witness: an analysis of three succeeded charges that the feed lists
\* latest first, in two periods
C9_Witness ==
    \E c \in Calls :
        /\ Analyzing(c) /\ Succeeded(c)
        /\ Len(call[c].charges) = 3
        /\ call[c].charges[1].created > call[c].charges[3].created
        /\ Len(call[c].result.periodData) = 2
        /\ call[c].result.periodData[1].revenue > call[c].result.periodData[2].revenue

Texts(insights) == [i \in 1..Len(insights) |-> insights[i].text]

Revenues(periodData) == {periodData[i].revenue : i \in 1..Len(periodData)}

\* C10: the insights are, in this order and with nothing else: the
\* highest-revenue line iff there is a bucket, naming a bucket of the
\* greatest revenue; the lowest-revenue line iff there are two buckets or
\* more, naming a bucket of the least revenue; the average-revenue-per-period
\* line; and the processed-transactions line, with the total count, iff that
\* count is above 0.
C10_InsightOrder ==
    \A c \in Calls :
        Analyzing(c) /\ Succeeded(c) =>
            LET pd == call[c].result.periodData
                ins == call[c].result.insights
                count == call[c].result.summary.transactionCount
            IN  /\ Texts(ins) =
                    (IF Len(pd) >= 1 THEN <<"Highest revenue period: ">> ELSE <<>>)
                    \o (IF Len(pd) >= 2 THEN <<"Lowest revenue period: ">> ELSE <<>>)
                    \o <<"Average revenue per period: ">>
                    \o (IF count > 0 THEN <<"Processed successful transactions: ">> ELSE <<>>)
                /\ Len(pd) >= 1 =>
                    /\ \A r \in Revenues(pd) : ins[1].value >= r
                    /\ \E i \in 1..Len(pd) :
                        pd[i].period = ins[1].period /\ pd[i].revenue = ins[1].value
                /\ Len(pd) >= 2 =>
                    /\ \A r \in Revenues(pd) : ins[2].value <= r
                    /\ \E i \in 1..Len(pd) :
                        pd[i].period = ins[2].period /\ pd[i].revenue = ins[2].value
                /\ count > 0 => ins[Len(ins)].value = count

\* C10 witness: an analysis with three buckets of different revenue and all
\* four insight lines
C10_Witness ==
    \E c \in Calls :
        /\ Analyzing(c) /\ Succeeded(c)
        /\ Len(call[c].result.periodData) = 3
        /\ Len(call[c].result.insights) = 4
        /\ call[c].result.insights[1].value > call[c].result.insights[2].value

\* the greatest revenue among the buckets
MaxRevenue(periodData) ==
    CHOOSE r \in Revenues(periodData) : \A q \in Revenues(periodData) : r >= q

\* C11: when two or more buckets share the maximum revenue, the "Highest
\* revenue period" insight names the one that comes first in periodData, which
\* is the one with the earliest period label; with a single bucket of maximum
\* revenue it names that bucket.
C11_TieNamesEarliestBucket ==
    \A c \in Calls :
        Analyzing(c) /\ Succeeded(c) /\ call[c].result.periodData # <<>> =>
            LET pd == call[c].result.periodData
                first == CHOOSE i \in 1..Len(pd) :
                            /\ pd[i].revenue = MaxRevenue(pd)
                            /\ \A j \in 1..(i - 1) : pd[j].revenue < MaxRevenue(pd)
                highest == call[c].result.insights[1]
            IN  /\ highest.text = "Highest revenue period: "
                /\ highest.period = pd[first].period
                /\ \A j \in 1..Len(pd) :
                        pd[j].revenue = MaxRevenue(pd) =>
                            localeCompare(highest.period, pd[j].period) <= 0

\* C11 witness: an analysis whose two first buckets share the maximum revenue,
\* above that of a third, the highest line naming the first of them
C11_Witness ==
    \E c \in Calls :
        /\ Analyzing(c) /\ Succeeded(c)
        /\ Len(call[c].result.periodData) >= 2
        /\ call[c].result.periodData[1].revenue = call[c].result.periodData[2].revenue
        /\ call[c].result.periodData[1].revenue = MaxRevenue(call[c].result.periodData)
        /\ call[c].result.insights[1].period = call[c].result.periodData[1].period

Refunding(c) == call[c].tool = "issueRefund"

\* the invocation reached the function body: its arguments passed the schema
Invoked(c) == Refunding(c) /\ call[c].pc \in {"awaiting", "done"}

\* C12: issueRefund never raises: once invoked it is awaiting the ledger or
\* has returned.  When the ledger answered with a refund, the result is
\* status "success" with amountRefunded = the amount of that refund (cents /
\* 100), which the ledger has recorded, and no error field.  When the ledger
\* refused (as it does when the amount exceeds the payment) or the call
\* failed, the result is status "error", amountRefunded = 0 and a non-empty
\* error message.
C12_RefundResultMapping ==
    \A c \in Calls :
        Refunding(c) =>
            /\ call[c].pc \in {"invalid", "awaiting", "done"}
            /\ Returned(c) /\ call[c].pages # <<>> =>
                /\ call[c].result =
                        [status |-> "success",
                         amountRefunded |-> call[c].pages[1].amount * 10]
                /\ \E i \in 1..Len(refunds) : refunds[i] = call[c].pages[1]
            /\ Returned(c) /\ call[c].pages = <<>> =>
                /\ DOMAIN call[c].result = {"status", "amountRefunded", "error"}
                /\ call[c].result.status = "error"
                /\ call[c].result.amountRefunded = 0
                /\ call[c].result.error # ""
            /\ /\ Returned(c)
               /\ call[c].args.paymentIntentId \in DOMAIN Charged
               /\ call[c].requests[1].amount > Charged[call[c].args.paymentIntentId]
               => call[c].result.status = "error" /\ call[c].result.amountRefunded = 0

\* C12 witness: one invocation asked for 12.504 and returned success with
\* the 12.50 the ledger confirmed; another asked for more than the payment
\* and returned the error payload with the ledger's message
C12_Witness ==
    \E c \in Calls : \E d \in Calls :
        /\ Refunding(c) /\ Returned(c)
        /\ call[c].args.amount = 12504
        /\ call[c].result.status = "success"
        /\ call[c].result.amountRefunded = 12500
        /\ Refunding(d) /\ Returned(d)
        /\ call[d].args.amount = 50000
        /\ call[d].args.paymentIntentId \in DOMAIN Charged
        /\ call[d].result.status = "error"
        /\ call[d].result.error =
            "Failed to issue refund: Refund amount is greater than unrefunded amount on charge"

\* C13: an invocation of issueRefund sends one refund-creation request when
\* it starts and none afterwards, whether the request succeeds or fails, and
\* a returned invocation stays returned; so the ledger never holds more
\* refunds than there were invocations.
C13_OneRequestPerInvocation ==
    /\ [](/\ \A c \in Calls : Invoked(c) => Len(call[c].requests) = 1
          /\ Len(refunds) <= Cardinality({c \in Calls : Invoked(c)}))
    /\ [][\A c \in Calls :
            /\ Invoked(c) => call'[c].requests = call[c].requests
            /\ Refunding(c) /\ Returned(c) => call'[c] = call[c]
            /\ Len(refunds') > Len(refunds) /\ call'[c] # call[c] =>
                    call[c].pc = "awaiting" /\ call'[c].pc = "done"]_vars

\* C13 witness: two invocations with the same arguments have both returned
\* success and the ledger holds two refunds of the same payment
C13_Witness ==
    /\ \A c \in Calls : Refunding(c) /\ Returned(c) /\ call[c].result.status = "success"
    /\ call["c1"].args = call["c2"].args
    /\ Len(refunds) = 2
    /\ refunds[1].payment_intent = refunds[2].payment_intent
    /\ refunds[1].amount = refunds[2].amount

\* the arguments of an invocation that are not what the tool asks for: a date
\* that reads as no date, an identifier without the "pi_" prefix
InvalidArgs(c) ==
    CASE Analyzing(c) ->
            isNaN(DateParse(call[c].args.startDate)) \/ isNaN(DateParse(call[c].args.endDate))
      [] Retrieving(c) ->
            isNaN(WallClock(call[c].args.startDate)) \/ isNaN(WallClock(call[c].args.endDate))
      [] Refunding(c) -> ~startsWith(call[c].args.paymentIntentId, <<"p", "i", "_">>)
      [] OTHER -> FALSE

\* C14, as claimed: a tool call whose arguments are invalid (a startDate or
\* endDate that is not a well-formed date, a paymentIntentId that does not
\* start with "pi_") is rejected before any request to the payments API: no
\* request to the ledger is ever made for such a call.
C14_InvalidArgsNeverRequested ==
    \A c \in Calls : InvalidArgs(c) => call[c].requests = <<>>

\* C15: invocations whose page requests interleave in any order do not affect
\* one another.  A step of one invocation changes nothing of another; the
\* cursor of each request is the last record of the invocation's own page
\* before it and the records accumulated are those of its own pages; and a
\* successful invocation returns what it returns when run alone: the payload
\* computed from the records the ledger holds in its range.
C15_ConcurrentCallsIndependent ==
    /\ [](\A c \in Calls :
            /\ \A k \in 2..Len(call[c].requests) :
                    call[c].requests[k].starting_after = Last(call[c].pages[k - 1].data).id
            /\ Analyzing(c) /\ ~Failed(c) =>
                    call[c].charges = OnlySucceeded(Flatten(call[c].pages))
            /\ Retrieving(c) /\ ~Failed(c) =>
                    call[c].allSessions = Flatten(call[c].pages)
            /\ Analyzing(c) /\ Succeeded(c) =>
                    call[c].result =
                        AnalyzeSuccess(OnlySucceeded(Matching(chargeFeed, Filter(c))),
                                       call[c].args.groupBy)
            /\ Retrieving(c) /\ Succeeded(c) =>
                    call[c].result = HistorySuccess(Matching(sessionFeed, Filter(c)))
            /\ Failed(c) => FailurePayload(c))
    /\ [][\A c \in Calls : \A d \in Calls :
            c # d /\ call'[c] # call[c] => call'[d] = call[d]]_vars

\* C15 witness: one analysis has returned the summary of both charges after
\* two pages while the other invocation, an analysis too, holds the charge
\* of its first page and awaits its second
C15_Witness ==
    \E c \in Calls : \E d \in Calls :
        /\ c # d
        /\ Analyzing(c) /\ Succeeded(c)
        /\ Len(call[c].pages) = 2
        /\ call[c].result.summary.transactionCount = 2
        /\ Analyzing(d) /\ call[d].pc = "awaiting"
        /\ Len(call[d].pages) = 1 /\ Len(call[d].requests) = 2
        /\ Len(call[d].charges) = 1

\* three succeeded charges of 10.00, 20.00 and 15.00 created on 2024-01-01
ExampleCharges ==
    WithIds(<<[amount |-> 1000, created |-> At(2024, 1, 1, 9, 0, 0), status |-> "succeeded"],
              [amount |-> 2000, created |-> At(2024, 1, 1, 12, 0, 0), status |-> "succeeded"],
              [amount |-> 1500, created |-> At(2024, 1, 1, 18, 0, 0), status |-> "succeeded"]>>,
            "ch")

\* C16: on success analyzeRevenueTrends reports totalRevenue = the sum of
\* the amounts of the succeeded transactions (cents / 100), transactionCount
\* = their number, and averageTransaction = totalRevenue / transactionCount
\* to the nearest cent, or 0 when there is none; amounts 1000, 2000 and 1500
\* on one day give totalRevenue 45.00, averageTransaction 15.00 and the single
\* bucket 2024-01-01 with revenue 45.00 and transactionCount 3.
C16_SummaryArithmetic ==
    /\ \A c \in Calls :
        Analyzing(c) /\ Succeeded(c) =>
            LET s == call[c].result.summary
                succeeded == OnlySucceeded(Matching(chargeFeed, Filter(c)))
            IN  /\ s.totalRevenue = SumAmounts(succeeded)
                /\ s.transactionCount = Len(succeeded)
                /\ s.transactionCount = 0 => s.averageTransaction = 0
                /\ s.transactionCount > 0 =>
                    LET distance == s.averageTransaction * s.transactionCount - s.totalRevenue
                    IN  /\ 2 * distance <= s.transactionCount
                        /\ 2 * distance > 0 - s.transactionCount
    /\ LET example == AnalyzeSuccess(ExampleCharges, "day")
       IN  /\ example.summary =
                [totalRevenue |-> 4500, transactionCount |-> 3, averageTransaction |-> 1500]
           /\ example.periodData =
                <<[period |-> DateString(2024, 1, 1), revenue |-> 4500, transactionCount |-> 3]>>

\* C16 witness: an analysis of three succeeded charges of 50.00 in all, whose
\* average, 16.666..., is reported as 16.67
C16_Witness ==
    \E c \in Calls :
        /\ Analyzing(c) /\ Succeeded(c)
        /\ call[c].result.summary.transactionCount = 3
        /\ call[c].result.summary.totalRevenue = 5000
        /\ call[c].result.summary.averageTransaction = 1667

\* a field of an optional part of a session: absent when the part is
Field(part, name) == IF part = null THEN null ELSE part[1][name]

\* C17: on success getPaymentHistory returns one record per completed
\* session received over all pages, in feed order, which are the sessions the
\* ledger holds in the range; totalPayments is the number of records and
\* totalRevenue the sum of their totalAmount; an absent session field gives
\* null in the record (0 for an amount, no line items for absent line items)
\* and a present one its value; and an invocation all of whose requests were
\* answered returns without the error field, whatever fields are absent.
C17_PaymentRecords ==
    \A c \in Calls :
        Retrieving(c) /\ Returned(c) /\ Len(call[c].pages) = Len(call[c].requests) =>
            LET received == Flatten(call[c].pages)
                payments == call[c].result.payments
            IN  /\ DOMAIN call[c].result = {"payments", "summary"}
                /\ received = Matching(sessionFeed, Filter(c))
                /\ Len(payments) = Len(received)
                /\ call[c].result.summary.totalPayments = Len(payments)
                /\ call[c].result.summary.totalRevenue = SumTotals(payments)
                /\ \A i \in 1..Len(received) :
                    LET session == received[i]
                        record == payments[i]
                        items == Field(session.line_items, "data")
                    IN  /\ record.paymentIntentId = session.payment_intent
                        /\ record.date = toLocaleString(session.created)
                        /\ record.totalAmount =
                            (IF session.amount_total = null THEN 0 ELSE session.amount_total[1])
                        /\ record.customerDetails.name = Field(session.customer_details, "name")
                        /\ record.customerDetails.email = Field(session.customer_details, "email")
                        /\ record.customerDetails.phone = Field(session.customer_details, "phone")
                        /\ record.shippingDetails.address =
                            Field(session.metadata, "delivery_address")
                        /\ record.shippingDetails.totalAmount =
                            (IF session.shipping_cost = null THEN 0
                             ELSE session.shipping_cost[1].amount_total)
                        /\ Len(record.lineItems) = Len(items)
                        /\ \A k \in 1..Len(items) :
                            /\ record.lineItems[k].name = items[k].description
                            /\ record.lineItems[k].quantity = items[k].quantity
                            /\ record.lineItems[k].totalAmount = items[k].amount_total
                            /\ record.lineItems[k].unitPrice =
                                (IF Field(items[k].price, "unit_amount") = null THEN 0
                                 ELSE items[k].price[1].unit_amount[1])

\* C17 witness: a payment history returned after two pages with three
\* records, one of them of a session with every optional field absent, and
\* the revenue of the other two
C17_Witness ==
    \E c \in Calls :
        /\ Retrieving(c) /\ Succeeded(c)
        /\ Len(call[c].pages) = 2
        /\ call[c].result.summary.totalPayments = 3
        /\ call[c].result.summary.totalRevenue = 4750
        /\ \E i \in 1..3 :
            /\ call[c].result.payments[i].totalAmount = 0
            /\ call[c].result.payments[i].customerDetails.name = null
            /\ call[c].result.payments[i].lineItems = <<>>
            /\ call[c].result.payments[i].shippingDetails.address = null

\* C18, as claimed: every iteration of the pagination loop of
\* analyzeRevenueTrends and getPaymentHistory makes progress: the page either
\* ends the loop, or it holds a record and the next request carries the id of
\* its last record, so that no two consecutive page requests of an invocation
\* carry the same cursor.
C18_EveryIterationProgresses ==
    \A c \in Calls :
        (Analyzing(c) \/ Retrieving(c)) =>
            \A k \in 1..Len(call[c].pages) :
                \/ ~call[c].pages[k].has_more /\ Len(call[c].requests) = k
                \/ /\ call[c].pages[k].has_more
                   /\ Len(call[c].requests) > k
                   /\ call[c].pages[k].data # <<>>
                   /\ call[c].requests[k + 1].starting_after = Last(call[c].pages[k].data).id
                   /\ call[c].requests[k + 1].starting_after # call[c].requests[k].starting_after

\* C19, as claimed: when the process exits after SIGTERM or SIGINT was
\* received at any point after the server started listening, the wait for
\* startConnection included, the HTTP server has closed and the hosted
\* connection startConnection was invoked for has been stopped by
\* stopConnection exactly once.
C19_ConnectionStoppedOnShutdown ==
    proc.signals # <<>> /\ proc.exit = "exit(0)" =>
        /\ proc.server = "closed"
        /\ proc.stops = 1
        /\ proc.connection = "stopped"

====
